---- MODULE Spec2Model ----
(***************************************************************************)
(* Model of the BodyBack Gmail listener: the Pub/Sub callback              *)
(* process_message (src/listener.py), the lead pipeline BodyBackDB         *)
(* (src/database/models.py), the extractors (src/database/parsers.py) and  *)
(* the field validators (src/database/validators.py).                      *)
(*                                                                         *)
(* Text is modelled by TLA+ strings; a character is a string of length 1.  *)
(***************************************************************************)
EXTENDS Integers, Sequences, FiniteSets, TLC

(***************************************************************************)
(* Bounds of the model.                                                    *)
(***************************************************************************)
\* Pub/Sub notifications handed to process_message in one run.
MaxNotifs == 3
\* Emails in the inbox.
MaxInbox == 2
\* Distinct values str(uuid.uuid4())[:8] can take.
NumTokens == 2
\* Pieces a subject is built from in the classifier specification.
MaxPieces == 2
\* Characters of an argument of a validator applied on its own.
MaxChars == 6

(***************************************************************************)
(* Python string primitives.  The ones that walk a string are functions,   *)
(* so that the string they are applied to is computed once; for the same   *)
(* reason a value used several times is bound by a quantifier over {e}.    *)
(***************************************************************************)
\* s[i-1]
Ch(s, i) == SubSeq(s, i, i)

\* s[i-1:]
From(s, i) == SubSeq(s, i, Len(s))

UpperChars == "ABCDEFGHIJKLMNOPQRSTUVWXYZ"

LowerChars == "abcdefghijklmnopqrstuvwxyz"

DigitChars == "0123456789"

\* the characters \s matches
WhiteSpace == {" ", "\t", "\n", "\r"}

IsIn(c, chars) == \E i \in 1..Len(chars) : Ch(chars, i) = c

IsAlpha(c) == IsIn(c, UpperChars) \/ IsIn(c, LowerChars)

IsDigit(c) == IsIn(c, DigitChars)

LowerCh(c) ==
    IF IsIn(c, UpperChars)
    THEN Ch(LowerChars, CHOOSE i \in 1..Len(UpperChars) : Ch(UpperChars, i) = c)
    ELSE c

\* str.lower()
Lower[s \in STRING] ==
    IF Len(s) <= 1 THEN LowerCh(s)
    ELSE Lower[SubSeq(s, 1, Len(s) \div 2)] \o Lower[From(s, Len(s) \div 2 + 1)]

\* str.lstrip()
LStrip[s \in STRING] ==
    IF s # "" /\ Ch(s, 1) \in WhiteSpace THEN LStrip[From(s, 2)] ELSE s

\* str.rstrip()
RStrip[s \in STRING] ==
    IF s # "" /\ Ch(s, Len(s)) \in WhiteSpace
    THEN RStrip[SubSeq(s, 1, Len(s) - 1)]
    ELSE s

\* str.strip()
Strip(s) == LStrip[RStrip[s]]

\* sub in s
Contains[s \in STRING, sub \in STRING] ==
    \E i \in 1..(Len(s) - Len(sub) + 1) : SubSeq(s, i, i + Len(sub) - 1) = sub

\* s.startswith(p)
StartsWith[s \in STRING, p \in STRING] ==
    Len(s) >= Len(p) /\ SubSeq(s, 1, Len(p)) = p

\* The least member of a non-empty set of numbers.
Least(S) == CHOOSE n \in S : \A k \in S : n <= k

\* The places of character class cls in s.
Places(s, cls) == {i \in 1..Len(s) : Ch(s, i) \in cls}

\* s.split(sep) for a separator of one character
SplitOn[s \in STRING, sep \in STRING] ==
    IF Places(s, {sep}) = {} THEN <<s>>
    ELSE <<SubSeq(s, 1, Least(Places(s, {sep})) - 1)>>
             \o SplitOn[From(s, Least(Places(s, {sep})) + 1), sep]

\* s.split() of a string that does not start with whitespace
WordsOf[t \in STRING] ==
    IF t = "" THEN <<>>
    ELSE IF Places(t, WhiteSpace) = {} THEN <<t>>
    ELSE <<SubSeq(t, 1, Least(Places(t, WhiteSpace)) - 1)>>
             \o WordsOf[LStrip[From(t, Least(Places(t, WhiteSpace)))]]

\* s.split(): the maximal runs of non-whitespace characters
Words(s) == WordsOf[LStrip[s]]

\* sep.join(parts)
Join[parts \in Seq(STRING), sep \in STRING] ==
    IF parts = <<>> THEN ""
    ELSE IF Len(parts) = 1 THEN parts[1]
    ELSE parts[1] \o sep \o Join[Tail(parts), sep]

\* [line.strip() for line in lines if line.strip()]
StrippedNonEmpty[lines \in Seq(STRING)] ==
    IF lines = <<>> THEN <<>>
    ELSE (IF Strip(lines[1]) = "" THEN <<>> ELSE <<Strip(lines[1])>>)
             \o StrippedNonEmpty[Tail(lines)]

\* Python's None, for a string
None == "<None>"

\* Python's None, for a dict or a row; <<d>> is the dict d
Absent == <<>>

(***************************************************************************)
(* Template classifier, src/listener.py.                                   *)
(***************************************************************************)
\* The keys of WATCHED_SUBJECTS in the order the dict is iterated.
EmailTypes == <<"new_lead", "home_page", "packages_page">>

WATCHED_SUBJECTS ==
    [new_lead |-> "NEW M LEAD",
     home_page |-> "SA Home page message from \"BodyBack\"",
     packages_page |-> "SA Packages page message from \"BodyBack\""]

FwdPrefix == "fwd:"

\* re.sub(r'^Fwd:\s*', '', subject, flags=re.IGNORECASE)
CleanSubject_unchecked(subject) == LStrip[From(subject, Len(FwdPrefix) + 1)]

CleanSubject(subject) ==
    IF StartsWith[Lower[subject], FwdPrefix]
    THEN LStrip[From(subject, Len(FwdPrefix) + 1)]
    ELSE subject

\* The templates whose fragment the cleaned subject contains.
Matches[clean_subject \in STRING] ==
    {i \in 1..Len(EmailTypes) :
        Contains[Lower[clean_subject], Lower[WATCHED_SUBJECTS[EmailTypes[i]]]]}

\* The classifier returning the last template that matches.
identify_email_type_last(subject) ==
    IF subject = None \/ subject = "" THEN None
    ELSE IF Matches[CleanSubject(subject)] = {} THEN None
    ELSE EmailTypes[CHOOSE n \in Matches[CleanSubject(subject)] :
                        \A k \in Matches[CleanSubject(subject)] : n >= k]

identify_email_type(subject) ==
    IF subject = None \/ subject = "" THEN None
    ELSE IF Matches[CleanSubject(subject)] = {} THEN None
    ELSE EmailTypes[Least(Matches[CleanSubject(subject)])]

(***************************************************************************)
(* Field validators, src/database/validators.py.                           *)
(***************************************************************************)
MinNameLength == 2

\* The validator measuring the name as given, whitespace at its ends
\* included.
is_valid_name_unstripped(name) ==
    \E v \in {name} :
        /\ v # ""
        /\ Len(v) >= MinNameLength
        /\ \E i \in 1..Len(v) : IsAlpha(Ch(v, i))

is_valid_name(name) ==
    \E v \in {name} :
        /\ v # ""
        /\ Len(Strip(v)) >= MinNameLength
        /\ \E i \in 1..Len(v) : IsAlpha(Ch(v, i))

SplitParts[name_parts \in Seq(STRING)] ==
    IF Len(name_parts) = 0 THEN <<"", "">>
    ELSE IF Len(name_parts) = 1 THEN <<name_parts[1], "">>
    ELSE IF Len(name_parts) = 2 THEN <<name_parts[1], name_parts[2]>>
    ELSE <<Join[SubSeq(name_parts, 1, Len(name_parts) - 1), " "],
           name_parts[Len(name_parts)]>>

\* The split that keeps the first and the last token only.
split_name_two_tokens(full_name) ==
    IF full_name = "" \/ Words(Strip(full_name)) = <<>> THEN <<"", "">>
    ELSE IF Len(Words(Strip(full_name))) = 1 THEN <<Words(Strip(full_name))[1], "">>
    ELSE <<Words(Strip(full_name))[1],
           Words(Strip(full_name))[Len(Words(Strip(full_name)))]>>

split_name(full_name) ==
    IF full_name = "" THEN <<"", "">> ELSE SplitParts[Words(Strip(full_name))]

MinEmailLength == 5

\* The validator looking for a dot anywhere in the address.
is_valid_email_anydot(email) ==
    \E v \in {email} :
        /\ v # ""
        /\ Len(v) >= MinEmailLength
        /\ Contains[v, "@"]
        /\ Contains[v, "."]

is_valid_email(email) ==
    \E v \in {email} :
        /\ v # ""
        /\ Len(v) >= MinEmailLength
        /\ Contains[v, "@"]
        /\ \E parts \in {SplitOn[v, "@"]} : Contains[parts[Len(parts)], "."]

MinPhoneDigits == 9

\* The validator counting every character of the number.
is_valid_phone_length(phone) ==
    \E v \in {phone} : v # "" /\ Len(v) >= MinPhoneDigits

is_valid_phone(phone) ==
    \E v \in {phone} :
        /\ v # ""
        /\ Cardinality(Places(v, {Ch(DigitChars, d) : d \in 1..Len(DigitChars)}))
               >= MinPhoneDigits

\* The function that only removes the whitespace at the ends.
clean_text_strip_only(text) == IF text = "" THEN "" ELSE Strip(text)

\* re.sub(r'\s+', ' ', text.strip())
clean_text(text) == IF text = "" THEN "" ELSE Join[Words(Strip(text)), " "]

(***************************************************************************)
(* Extractors, src/database/parsers.py.  A parsed record is the dict the   *)
(* extractor returns; a key the dict lacks reads as '' (dict.get).         *)
(***************************************************************************)
\* [line.strip() for line in email_body.strip().split('\n') if line.strip()]
BodyLines(email_body) == StrippedNonEmpty[SplitOn[Strip(email_body), "\n"]]

MinLeadLines == 4

\* The validation that leaves the address unchecked.
ValidatedLead_any_email(data) ==
    IF ~is_valid_name(data.name) THEN Absent
    ELSE IF ~is_valid_phone(data.phone) THEN Absent
    ELSE <<data>>

\* The validation of the extracted lead.
ValidatedLead(data) ==
    IF ~is_valid_name(data.name) THEN Absent
    ELSE IF ~is_valid_phone(data.phone) THEN Absent
    ELSE IF ~is_valid_email(data.email) THEN Absent
    ELSE <<data>>

LeadOfLines(lines) ==
    IF Len(lines) < MinLeadLines THEN Absent
    ELSE ValidatedLead([name |-> lines[1],
                        phone |-> lines[2],
                        email |-> lines[3],
                        location |-> lines[4],
                        customer_data |->
                            IF Len(lines) > MinLeadLines
                            THEN Join[SubSeq(lines, MinLeadLines + 1, Len(lines)), "\n"]
                            ELSE ""])

parse_new_lead(email_body) ==
    CHOOSE data \in {LeadOfLines(lines) : lines \in {BodyLines(email_body)}} : TRUE

\* The gap \s*\n\s* at the head of rest: a whitespace run holding a newline.
HasLineGap[rest \in STRING] ==
    Contains[SubSeq(rest, 1, Len(rest) - Len(LStrip[rest])), "\n"]

\* The positions just after an occurrence of label (case-insensitive) that
\* is followed by \s*\n\s*.
AfterLabel[body \in STRING, label \in STRING] ==
    {j \in (Len(label) + 1)..(Len(body) + 1) :
        /\ LowerCh(Ch(body, j - Len(label))) = LowerCh(Ch(label, 1))
        /\ Lower[SubSeq(body, j - Len(label), j - 1)] = Lower[label]
        /\ HasLineGap[From(body, j)]}

\* The lookahead (?=\s*<stop>|\s*$) for one of the stop words.
Ahead[rest \in STRING, stops \in SUBSET STRING] ==
    \/ LStrip[rest] = ""
    \/ \E st \in stops, head \in {LStrip[rest]} :
          Len(head) >= Len(st) /\ Lower[SubSeq(head, 1, Len(st))] = st

\* The characters a lazy group accepts: letters and whitespace when
\* alphaOnly ([A-Za-z\s]), else anything but newline and asterisk ([^\n*]).
Accepts(c, alphaOnly) ==
    IF alphaOnly THEN IsAlpha(c) \/ c \in WhiteSpace ELSE c \notin {"\n", "*"}

\* The lengths a lazy capture group can take at the head of rest: at least
\* min characters of its class, the first a letter when alphaOnly, after
\* which the lookahead holds.
Fits[rest \in STRING, alphaOnly \in BOOLEAN, min \in Nat, stops \in SUBSET STRING] ==
    {n \in min..Len(rest) :
        /\ \A i \in 1..n : Accepts(Ch(rest, i), alphaOnly)
        /\ alphaOnly => IsAlpha(Ch(rest, 1))
        /\ Ahead[From(rest, n + 1), stops]}

\* The lazy group takes the shortest; None when the pattern does not match.
LazyGroup[rest \in STRING, alphaOnly \in BOOLEAN, min \in Nat, stops \in SUBSET STRING] ==
    IF Fits[rest, alphaOnly, min, stops] = {} THEN None
    ELSE SubSeq(rest, 1, Least(Fits[rest, alphaOnly, min, stops]))

\* The places where <label>\s*\n\s*(<lazy group>)(?=...) matches.
GroupPlaces[body \in STRING, label \in STRING, alphaOnly \in BOOLEAN, min \in Nat, stops \in SUBSET STRING] ==
    {j \in AfterLabel[body, label] :
        LazyGroup[LStrip[From(body, j)], alphaOnly, min, stops] # None}

\* The capture of the leftmost match; None without a match.
LabelledGroup[body \in STRING, label \in STRING, alphaOnly \in BOOLEAN, min \in Nat, stops \in SUBSET STRING] ==
    IF GroupPlaces[body, label, alphaOnly, min, stops] = {} THEN None
    ELSE LazyGroup[LStrip[From(body, Least(GroupPlaces[body, label, alphaOnly, min, stops]))],
                   alphaOnly, min, stops]

\* The greedy run of digits s starts with.
DigitRun[s \in STRING] ==
    IF s # "" /\ IsDigit(Ch(s, 1)) THEN Ch(s, 1) \o DigitRun[From(s, 2)] ELSE ""

\* re.sub(r'\*+.*$', '', s).strip()
DropFromAsterisk[s \in STRING] ==
    IF Places(s, {"*"}) = {} THEN Strip(s)
    ELSE Strip(SubSeq(s, 1, Least(Places(s, {"*"})) - 1))

\* A capture after clean_text and the removal of trailing markers.
Cleaned[g \in STRING] == IF g = None THEN "" ELSE DropFromAsterisk[clean_text(g)]

\* The place just after the first occurrence of label, whatever the letter
\* case; 0 when the body does not hold it.
LabelEnd[body \in STRING, label \in STRING] ==
    IF Contains[Lower[body], label]
    THEN Least({j \in (Len(label) + 1)..(Len(body) + 1) :
                   /\ LowerCh(Ch(body, j - Len(label))) = Ch(label, 1)
                   /\ Lower[SubSeq(body, j - Len(label), j - 1)] = label})
    ELSE 0

\* Place d of the body is at the start of a line behind place e: the
\* pattern .*?\n+\s* can end just before it.
StartsLine(body, e, d) ==
    /\ d > e
    /\ Ch(body, d - 1) \in WhiteSpace
    /\ \E i \in e..(d - 1) :
          /\ Ch(body, i) = "\n"
          /\ \A k \in i..(d - 1) : Ch(body, k) \in WhiteSpace

\* The greedy run of letters and whitespace s starts with.
AlphaRun[s \in STRING] ==
    IF s # "" /\ (IsAlpha(Ch(s, 1)) \/ Ch(s, 1) \in WhiteSpace)
    THEN Ch(s, 1) \o AlphaRun[From(s, 2)]
    ELSE ""

\* The places where name_patterns[5] can capture:
\* Name.*?\n+\s*([A-Z][A-Z\s]+), letter case ignored.
NameLinePlaces[body \in STRING] ==
    UNION {{d \in e..Len(body) :
               /\ IsAlpha(Ch(body, d))
               /\ StartsLine(body, e, d)
               /\ Len(AlphaRun[From(body, d)]) >= 2} :
           e \in {LabelEnd[body, "name"]} \ {0}}

\* The acceptance test of the name loop.
AcceptedName[potential_name \in STRING] ==
    IF Len(potential_name) >= MinNameLength
       /\ \E i \in 1..Len(potential_name) : IsAlpha(Ch(potential_name, i))
    THEN potential_name
    ELSE ""

\* The head of s up to the first character of stops: [^...]+ at the head
\* of s.
RunOutside[s \in STRING, stops \in SUBSET STRING] ==
    IF Places(s, stops) = {} THEN s ELSE SubSeq(s, 1, Least(Places(s, stops)) - 1)

\* The place behind the \*? that follows a label ending before place e.
BehindStar(body, e) == IF Ch(body, e) = "*" THEN e + 1 ELSE e

\* The newlines of the body from place a to place b.
Newlines(body, a, b) == Cardinality({i \in a..b : Ch(body, i) = "\n"})

\* Place d of the body can follow \s*\n.*?\n.*?\n.*?\n.*?\n.*?\n\s* started
\* at place b: only whitespace up to the first newline, six newlines at
\* least, and whitespace between the last of them and d.
SixLinesOn(body, b, d) ==
    /\ HasLineGap[From(body, b)]
    /\ \E i \in b..(d - 1) :
          /\ Ch(body, i) = "\n"
          /\ \A k \in i..(d - 1) : Ch(body, k) \in WhiteSpace
          /\ Newlines(body, b, i) >= 6

\* The places where name_patterns[2] can capture.
NameSixLinePlaces[body \in STRING] ==
    UNION {{d \in e..Len(body) :
               /\ IsAlpha(Ch(body, d))
               /\ Ch(body, d - 1) \in WhiteSpace
               /\ Len(AlphaRun[From(body, d)]) >= 2
               /\ SixLinesOn(body, BehindStar(body, e), d)} :
           e \in {LabelEnd[body, "name and surname"]} \ {0}}

\* The text behind the first 'Name and Surname', one asterisk and the
\* whitespace after it; None when the body does not hold the label or
\* nothing but whitespace is behind it.
BehindNameLabel[body \in STRING] ==
    CHOOSE t \in {IF e = 0 \/ LStrip[From(body, BehindStar(body, e))] = ""
                  THEN None
                  ELSE From(body, BehindStar(body, e)) :
                     e \in {LabelEnd[body, "name and surname"]}} : TRUE

\* group(1) of the match of name_patterns[i - 1], None without a match, for
\* a body that holds each label once.
NameCapture(email_body, i) ==
    IF i = 1
    THEN LabelledGroup[email_body, "*Name and Surname**", TRUE, 2, {"*number"}]
    ELSE IF i = 2
    THEN (IF BehindNameLabel[email_body] = None THEN None
          ELSE LazyGroup[LStrip[BehindNameLabel[email_body]], TRUE, 2,
                         {"*number", "number"}])
    ELSE IF i = 3
    THEN (IF NameSixLinePlaces[email_body] = {} THEN None
          ELSE AlphaRun[From(email_body, Least(NameSixLinePlaces[email_body]))])
    ELSE IF i = 4
    THEN (IF BehindNameLabel[email_body] = None
             \/ ~HasLineGap[BehindNameLabel[email_body]]
          THEN None
          ELSE RunOutside[LStrip[BehindNameLabel[email_body]], {"\n"}])
    ELSE IF i = 5
    THEN (IF BehindNameLabel[email_body] = None THEN None
          ELSE RunOutside[LStrip[BehindNameLabel[email_body]], {"\n", "\r"}])
    ELSE (IF NameLinePlaces[email_body] = {} THEN None
          ELSE AlphaRun[From(email_body, Least(NameLinePlaces[email_body]))])

\* The patterns of a field's list.
NumPatterns == 6

\* The name loop from pattern i on: the first pattern that matches with a
\* capture the acceptance test lets through gives the name.
NameFrom[email_body \in STRING, i \in Nat] ==
    IF i > NumPatterns THEN ""
    ELSE CHOOSE name \in
             {IF potential_name # "" THEN potential_name
              ELSE NameFrom[email_body, i + 1] :
                 potential_name \in
                     {AcceptedName[Cleaned[NameCapture(email_body, i)]]}} : TRUE

\* The name loop that stops at the first pattern that matches.
ContactName_first_match(email_body) ==
    IF \A i \in 1..NumPatterns : NameCapture(email_body, i) = None THEN ""
    ELSE AcceptedName[Cleaned[NameCapture(email_body,
             Least({i \in 1..NumPatterns : NameCapture(email_body, i) # None}))]]

ContactName(email_body) == NameFrom[email_body, 1]

\* The places where a run of at least 9 digits starts.
PhonePlaces[s \in STRING] == {j \in 1..Len(s) : Len(DigitRun[From(s, j)]) >= MinPhoneDigits}

\* The places where phone_patterns[0] finds its digits:
\* \*Number \(10 digits\)\*\*\s*\n\s*([0-9]{9,})
LabelledPhonePlaces[body \in STRING] ==
    {j \in AfterLabel[body, "*Number (10 digits)**"] :
        Len(DigitRun[LStrip[From(body, j)]]) >= MinPhoneDigits}

\* The places where phone_patterns[1] finds its digits: a run of 9 digits
\* somewhere behind 'Number'.
\* \*?Number.*?\*?\s*\n?\s*([0-9]{9,})
NumberedPhonePlaces[body \in STRING] ==
    UNION {{j \in PhonePlaces[body] : j >= e} :
           e \in {LabelEnd[body, "number"]} \ {0}}

\* The places where phone_patterns[3] finds its digits: a line that starts
\* with a digit behind 'Number'.
\* \*?Number.*?\*?\s*\n+\s*([0-9]+)
PhoneLinePlaces[body \in STRING] ==
    UNION {{d \in e..Len(body) : IsDigit(Ch(body, d)) /\ StartsLine(body, e, d)} :
           e \in {LabelEnd[body, "number"]} \ {0}}

\* The places where phone_patterns[2] finds its digits.
PhoneSixLinePlaces[body \in STRING] ==
    UNION {{d \in PhonePlaces[body] :
               /\ d > e
               /\ Ch(body, d - 1) \in WhiteSpace
               /\ SixLinesOn(body, BehindStar(body, e), d)} :
           e \in {LabelEnd[body, "number (10 digits)"]} \ {0}}

\* The places where the digits of phone_patterns[i - 1] start, for a body
\* that holds each label once.  phone_patterns[4], Number.*?(\d{9,}), finds
\* the digits phone_patterns[1] finds.
PhoneCapturePlaces(email_body, i) ==
    IF i = 1 THEN LabelledPhonePlaces[email_body]
    ELSE IF i = 2 THEN NumberedPhonePlaces[email_body]
    ELSE IF i = 3 THEN PhoneSixLinePlaces[email_body]
    ELSE IF i = 4 THEN PhoneLinePlaces[email_body]
    ELSE IF i = 5 THEN NumberedPhonePlaces[email_body]
    ELSE PhonePlaces[email_body]

\* group(1) of the match of phone_patterns[i - 1], None without a match.
PhoneCapture(email_body, i) ==
    IF PhoneCapturePlaces(email_body, i) = {} THEN None
    ELSE DigitRun[LStrip[From(email_body, Least(PhoneCapturePlaces(email_body, i)))]]

\* The phone loop from pattern i on: the first pattern that matches gives
\* the number.
PhoneFrom[email_body \in STRING, i \in Nat] ==
    IF i > NumPatterns THEN ""
    ELSE CHOOSE phone \in
             {IF capture # None THEN clean_text(capture)
              ELSE PhoneFrom[email_body, i + 1] :
                 capture \in {PhoneCapture(email_body, i)}} : TRUE

ContactPhone(email_body) == PhoneFrom[email_body, 1]

MinFieldLength == 2

AcceptedText[potential \in STRING] ==
    IF Len(potential) >= MinFieldLength THEN potential ELSE ""

\* location_patterns[0] and the acceptance test of the location loop.
ContactLocation(email_body) ==
    AcceptedText[Cleaned[LabelledGroup[email_body, "*Location*", FALSE, 1,
                                       {"*goals", "goals"}]]]

\* goals_patterns[0] and the acceptance test of the goals loop.
ContactGoals(email_body) ==
    AcceptedText[Cleaned[LabelledGroup[email_body, "*Goals, injuries & other details*",
                                       FALSE, 1, {"date:"}]]]

\* The gate that wants a valid phone number whatever the location.
ValidatedContact_phone_required(data) ==
    IF ~is_valid_name(data.name) THEN Absent
    ELSE IF ~is_valid_phone(data.phone) THEN Absent
    ELSE <<data>>

\* The validation gate of the contact form.
ValidatedContact(data) ==
    IF ~is_valid_name(data.name) THEN Absent
    ELSE IF ~is_valid_phone(data.phone) /\ data.location = "" THEN Absent
    ELSE <<data>>

\* The dict data at the end of the four loops, before the gate.
ContactFields(email_body) ==
    [name |-> ContactName(email_body),
     phone |-> ContactPhone(email_body),
     email |-> "",
     location |-> ContactLocation(email_body),
     customer_data |-> ContactGoals(email_body)]

parse_contact_form(email_body) ==
    CHOOSE gated \in
        {ValidatedContact(data) : data \in {ContactFields(email_body)}} : TRUE

(***************************************************************************)
(* The mailbox: the emails the Gmail API can return.  Mail[m] is what      *)
(* get_email_content(m) reads for message identifier m.                    *)
(***************************************************************************)
ContactBody(name, phone, location) ==
    "*Name and Surname**\n" \o name \o "\n*Number (10 digits)**\n" \o phone
        \o "\n*Location*\n" \o location
        \o "\n*Goals, injuries & other details*\nBack pain\nDate: 1 Jan"

Mail ==
    <<[subject |-> "NEW M LEAD",
       body |-> "Jane Doe\n0821234567\njane@x.co\nCape Town"],
      [subject |-> "Fwd: NEW M LEAD inquiry",
       body |-> "J  Doe\n 0829999999 \njane@x.co\nDurban\nCall me\nafter 5"],
      [subject |-> "SA Home page message from \"BodyBack\"",
       body |-> ContactBody("John Smith", "0831112222", "Cape Town")],
      [subject |-> "Fwd: SA Packages page message from \"BodyBack\"",
       body |-> ContactBody("Johnny Smith", "0831112222", "Durban")],
      [subject |-> "Weekly newsletter",
       body |-> "Hello"],
      [subject |-> "NEW M LEAD",
       body |-> "Jim Poe\n0824445555\njim@x.co"],
      [subject |-> "SA Home page message from \"BodyBack\"",
       body |-> ContactBody("Mary", "", "Durban North")],
      [subject |-> "NEW M LEAD",
       body |-> "Sam van Roe\n0831112222\nlead_00000001@bodyback-lead.local\nDurban"],
      [subject |-> "SA Packages page message from \"BodyBack\"",
       body |-> ContactBody("Mary", "", "Durban North")]>>

MailIds == 1..Len(Mail)

\* maxResults=5 of the messages.list call
MaxResults == 5

RecentMessages(box) == SubSeq(box, 1, IF Len(box) < MaxResults THEN Len(box) ELSE MaxResults)

ContactTypes == {"home_page", "packages_page"}

\* BodyBackDB.save_lead: the extractor run for a template.
ParseFor(email_type, body) ==
    IF email_type = "new_lead" THEN parse_new_lead(body) ELSE parse_contact_form(body)

Bool(b) == IF b THEN "True" ELSE "False"

Call(fn, r) == [fn |-> fn, r |-> r]

\* The validators a gate calls: each is reached when the one before it
\* returned True.
GateCalls(name_ok, phone_ok, with_email, email_ok) ==
    <<Call("is_valid_name", Bool(name_ok))>>
        \o (IF name_ok THEN <<Call("is_valid_phone", Bool(phone_ok))>> ELSE <<>>)
        \o (IF name_ok /\ phone_ok /\ with_email
            THEN <<Call("is_valid_email", Bool(email_ok))>>
            ELSE <<>>)

\* The extractor called for a message and the validators it calls.
ParseCalls(email_type, body) ==
    IF email_type = "new_lead"
    THEN <<Call("parse_new_lead", Bool(parse_new_lead(body) # Absent))>>
             \o (IF Len(BodyLines(body)) < MinLeadLines THEN <<>>
                 ELSE GateCalls(is_valid_name(BodyLines(body)[1]),
                                is_valid_phone(BodyLines(body)[2]),
                                TRUE,
                                is_valid_email(BodyLines(body)[3])))
    ELSE <<Call("parse_contact_form", Bool(parse_contact_form(body) # Absent))>>
             \o GateCalls(is_valid_name(ContactName(body)),
                          is_valid_phone(ContactPhone(body)),
                          FALSE, FALSE)

\* What the pipeline computes from message m alone: the template of its
\* subject, the record its extractor returns and the calls the extractor
\* makes.
ExtractAs(m, email_type) ==
    [email_type |-> email_type,
     parsed |-> IF email_type = None THEN Absent
                ELSE ParseFor(email_type, Mail[m].body),
     calls |-> IF email_type = None THEN <<>>
               ELSE ParseCalls(email_type, Mail[m].body)]

Extract(m) ==
    CHOOSE e \in {ExtractAs(m, email_type) :
                     email_type \in {identify_email_type(Mail[m].subject)}} : TRUE

\* str(uuid.uuid4())[:8]
Token(k) == "0000000" \o Ch(DigitChars, k + 1)

Tokens == 1..NumTokens

Workers == {1, 2}

(***************************************************************************)
(* State.                                                                  *)
(***************************************************************************)
VARIABLES
    inbox,      \* the message ids of the INBOX label, most recent first
    users,      \* the committed rows of table users; a row's id is its index
    customers,  \* the committed rows of table customers
    wk,         \* per Pub/Sub callback thread: its position and locals
    handed,     \* notifications handed to process_message so far
    acked,      \* message.ack() calls so far
    cls,        \* input and results of the classifier specification
    app,        \* a function of the pipeline applied on its own: the
                \* function, its argument and its result
    mail        \* Extract(m) of every message m, computed once

vars == <<inbox, users, customers, wk, handed, acked, cls, app, mail>>

Idle ==
    [pc |-> "idle", recent |-> <<>>, idx |-> 0, tx |-> Absent, calls |-> <<>>,
     outcome |-> None, ret |-> 0, insertError |-> None, raised |-> FALSE,
     syserr |-> FALSE]

ClsIdle == [subject |-> "", fwd |-> "", direct |-> "?", forwarded |-> "?"]

AppIdle == [fn |-> "", arg |-> "", out |-> <<>>]

Init ==
    /\ mail = [m \in MailIds |-> Extract(m)]
    /\ inbox = <<>>
    /\ users = <<>>
    /\ customers = <<>>
    /\ wk = [w \in Workers |-> Idle]
    /\ handed = 0
    /\ acked = 0
    /\ cls = ClsIdle
    /\ app = AppIdle

(***************************************************************************)
(* The persistence boundary, src/database/models.py.  ok says whether the  *)
(* storage answers; when it does not, psycopg2 raises.                     *)
(***************************************************************************)
email_already_processed_never(email_id, ok) == FALSE

\* The check that takes a query that raises for a stored identifier.
email_already_processed_closed(email_id, ok) ==
    IF ok THEN \E i \in DOMAIN customers : customers[i].gmail_id = email_id
    ELSE TRUE

email_already_processed(email_id, ok) ==
    IF ok THEN \E i \in DOMAIN customers : customers[i].gmail_id = email_id
    ELSE FALSE

\* The check that looks the phone number up whatever the template.
lead_already_exists_by_phone(parsed_data, email_type, ok) ==
    IF ~ok THEN FALSE
    ELSE LET phone == Strip(parsed_data.phone)
         IN  phone # "" /\ \E i \in DOMAIN users : users[i].phone_number = phone

\* The check that queries the phone number also when it is empty.
lead_already_exists_any_phone(parsed_data, email_type, ok) ==
    IF ~ok THEN FALSE
    ELSE IF email_type \in ContactTypes
    THEN \E i \in DOMAIN users : users[i].phone_number = Strip(parsed_data.phone)
    ELSE IF email_type = "new_lead"
    THEN LET email == Strip(parsed_data.email)
         IN  email # "" /\ \E i \in DOMAIN users : users[i].email = email
    ELSE FALSE

lead_already_exists(parsed_data, email_type, ok) ==
    IF ~ok THEN FALSE
    ELSE IF email_type \in ContactTypes
    THEN LET phone == Strip(parsed_data.phone)
         IN  phone # "" /\ \E i \in DOMAIN users : users[i].phone_number = phone
    ELSE IF email_type = "new_lead"
    THEN LET email == Strip(parsed_data.email)
         IN  email # "" /\ \E i \in DOMAIN users : users[i].email = email
    ELSE FALSE

\* LeadSaver.save_lead: the address stored for the lead.
EmailAddress(parsed_data, email_type, k) ==
    LET email_address == Strip(parsed_data.email)
    IN  IF email_type \in ContactTypes
        THEN "contact_" \o Token(k) \o "@bodyback-lead.local"
        ELSE IF email_type = "new_lead"
                /\ (email_address = "" \/ ~is_valid_email(email_address))
        THEN "lead_" \o Token(k) \o "@bodyback-lead.local"
        ELSE email_address

\* The row of INSERT INTO users.
UsersRow(parsed_data, email_type, k) ==
    [email |-> EmailAddress(parsed_data, email_type, k),
     first_name |-> split_name(parsed_data.name)[1],
     last_name |-> split_name(parsed_data.name)[2],
     phone_number |-> parsed_data.phone,
     location |-> parsed_data.location]

\* The row that counts every address stored as a real one.
CustomersRow_every_address_real(user_id, m, email_type, parsed_data) ==
    [user_id |-> user_id,
     gmail_id |-> m,
     source |-> email_type,
     customer_data |-> parsed_data.customer_data,
     has_real_email |-> TRUE,
     primary_contact_method |->
         IF email_type \in ContactTypes THEN "phone" ELSE "email"]

\* The row of INSERT INTO customers.
CustomersRow(user_id, m, email_type, parsed_data) ==
    [user_id |-> user_id,
     gmail_id |-> m,
     source |-> email_type,
     customer_data |-> parsed_data.customer_data,
     has_real_email |->
         Strip(parsed_data.email) # "" /\ is_valid_email(parsed_data.email),
     primary_contact_method |->
         IF email_type \in ContactTypes THEN "phone" ELSE "email"]

\* users.email is unique in the store: the INSERT raises
\* psycopg2.IntegrityError for an address a committed row holds.  The
\* schema is not part of the sources; the placeholder addresses save_lead
\* makes up and its IntegrityError branch are written for this constraint.
EmailTaken(email) == \E i \in DOMAIN users : users[i].email = email

\* An INSERT waits while another open transaction holds the same address.
EmailLocked(w, email) ==
    \E v \in Workers \ {w} : wk[v].tx # Absent /\ wk[v].tx[1].email = email

(***************************************************************************)
(* process_message, src/listener.py.  One action per call that reaches     *)
(* outside the thread (Gmail API, storage); the pure steps between two     *)
(* such calls belong to the action of the call they follow.                *)
(* calls is the log of the calls made for the message at hand, outcome     *)
(* the terminal state that message reached.                                *)
(***************************************************************************)
Set(w, rec) == wk' = [wk EXCEPT ![w] = rec]

\* The message at hand.
Cur(w) == wk[w].recent[wk[w].idx]

\* `continue`, or the end of the for loop over recent_messages['messages'].
Continue(rec) ==
    IF rec.idx < Len(rec.recent)
    THEN [rec EXCEPT !.pc = "check", !.idx = rec.idx + 1]
    ELSE [rec EXCEPT !.pc = "ack"]

\* The loop that goes on with the next message after process_watched_email.
Break_continue(rec) == Continue(rec)

\* `break` after process_watched_email, and any path to the end of the try.
Break(rec) == [rec EXCEPT !.pc = "ack"]

\* except Exception of process_message: the error is logged and control
\* reaches the try block of message.ack().
Except_noack(rec) == [rec EXCEPT !.pc = "idle", !.raised = TRUE]

Except(rec) == [rec EXCEPT !.pc = "ack", !.raised = TRUE]

Deliveries == {"ok", "bad_json", "no_address", "list_error"}

\* An email arrives in the watched mailbox.
Arrive(m) ==
    /\ Len(inbox) < MaxInbox
    /\ \A i \in DOMAIN inbox : inbox[i] # m
    /\ inbox' = <<m>> \o inbox
    /\ UNCHANGED <<users, customers, wk, handed, acked, cls, app, mail>>

\* The subscriber hands a notification to process_message: the payload is
\* decoded and the recent messages are listed.
Receive(w, delivery) ==
    /\ wk[w].pc = "idle"
    /\ handed < MaxNotifs
    /\ handed' = handed + 1
    /\ Set(w, IF delivery \in {"bad_json", "list_error"} THEN Except(Idle)
              ELSE IF delivery = "no_address" \/ RecentMessages(inbox) = <<>>
              THEN Break(Idle)
              ELSE [Idle EXCEPT !.pc = "check",
                                !.recent = RecentMessages(inbox),
                                !.idx = 1])
    /\ UNCHANGED <<inbox, users, customers, acked, cls, app, mail>>

\* `if db.email_already_processed(msg['id']): continue`
SkipProcessed(found) == found

\* The head of the loop body.
CheckProcessed(w, ok) ==
    /\ wk[w].pc = "check"
    /\ LET found == email_already_processed(Cur(w), ok)
           rec == [wk[w] EXCEPT
                      !.calls = <<Call("email_already_processed", Bool(found))>>,
                      !.outcome = None]
       IN  Set(w, IF SkipProcessed(found)
                  THEN Continue([rec EXCEPT !.outcome = "SkippedDuplicate"])
                  ELSE [rec EXCEPT !.pc = "fetch"])
    /\ UNCHANGED <<inbox, users, customers, handed, acked, cls, app, mail>>

\* `if email_content['email_type']`
IsWatched_always(email_type) == TRUE

IsWatched(email_type) == email_type # None

\* get_email_content, which classifies the subject, and the test of
\* email_content['email_type'].
Fetch(w, got) ==
    /\ wk[w].pc = "fetch"
    /\ LET email_type == mail[Cur(w)].email_type
           rec == [wk[w] EXCEPT !.calls = @ \o <<Call("get_email_content", Bool(got))>>]
           typed == [rec EXCEPT !.calls = @ \o <<Call("identify_email_type", email_type)>>]
       IN  Set(w, IF ~got THEN Continue(rec)
                  ELSE IF ~IsWatched(email_type)
                  THEN Continue([typed EXCEPT !.outcome = "Dropped"])
                  ELSE [typed EXCEPT !.pc = "recheck"])
    /\ UNCHANGED <<inbox, users, customers, handed, acked, cls, app, mail>>

\* `if not db.email_already_processed(email_content['id'])`
SaveAfterCheck_always(found) == TRUE

SaveAfterCheck(found) == ~found

\* process_watched_email: the second identifier check, then the extraction
\* at the head of BodyBackDB.save_lead.
Recheck(w, ok) ==
    /\ wk[w].pc = "recheck"
    /\ LET m == Cur(w)
           found == email_already_processed(m, ok)
           rec == [wk[w] EXCEPT
                      !.calls = @ \o <<Call("email_already_processed", Bool(found))>>]
           parsed == [rec EXCEPT !.calls = @ \o mail[m].calls]
       IN  Set(w, IF ~SaveAfterCheck(found)
                  THEN Break([rec EXCEPT !.outcome = "SkippedDuplicate"])
                  ELSE IF mail[m].parsed = Absent
                  THEN Break([parsed EXCEPT !.outcome = "Rejected", !.ret = 0])
                  ELSE [parsed EXCEPT !.pc = "leadcheck"])
    /\ UNCHANGED <<inbox, users, customers, handed, acked, cls, app, mail>>

\* BodyBackDB.save_lead: the natural-key check.
LeadCheck(w, ok) ==
    /\ wk[w].pc = "leadcheck"
    /\ LET m == Cur(w)
           found == lead_already_exists(mail[m].parsed[1], mail[m].email_type, ok)
           rec == [wk[w] EXCEPT
                      !.calls = @ \o <<Call("lead_already_exists", Bool(found))>>]
       IN  Set(w, IF found
                  THEN Break([rec EXCEPT !.outcome = "SkippedDuplicate", !.ret = 0])
                  ELSE [rec EXCEPT !.pc = "insert"])
    /\ UNCHANGED <<inbox, users, customers, handed, acked, cls, app, mail>>

\* except psycopg2.IntegrityError of LeadSaver.save_lead: logged at info
\* level, None returned.
OnIntegrityError_system(rec) ==
    Break([rec EXCEPT !.outcome = "SystemError", !.ret = 0, !.syserr = TRUE,
                      !.insertError = "IntegrityError", !.tx = Absent])

OnIntegrityError(rec) ==
    Break([rec EXCEPT !.outcome = "SkippedDuplicate", !.ret = 0,
                      !.insertError = "IntegrityError", !.tx = Absent])

\* except Exception of LeadSaver.save_lead: logged as SYSTEM ERROR, None
\* returned; leaving `with conn` by an exception rolls the transaction back.
OnOperationalError(rec) ==
    Break([rec EXCEPT !.outcome = "SystemError", !.ret = 0, !.syserr = TRUE,
                      !.insertError = "OperationalError", !.tx = Absent])

\* LeadSaver.save_lead up to INSERT INTO users, inside the transaction
\* that `with self.db.get_connection() as conn` opens.
InsertUser_autocommit(w, ok, k) ==
    /\ wk[w].pc = "insert"
    /\ LET m == Cur(w)
           row == UsersRow(mail[m].parsed[1], mail[m].email_type, k)
           rec == [wk[w] EXCEPT !.calls = @ \o <<Call("insert", Bool(ok))>>]
       IN  /\ ok => ~EmailLocked(w, row.email)
           /\ Set(w, IF ~ok THEN OnOperationalError(rec)
                     ELSE IF EmailTaken(row.email) THEN OnIntegrityError(rec)
                     ELSE [rec EXCEPT !.pc = "commit", !.tx = <<row>>])
           /\ users' = IF ok /\ ~EmailTaken(row.email) THEN Append(users, row) ELSE users
    /\ UNCHANGED <<inbox, customers, handed, acked, cls, app, mail>>

InsertUser(w, ok, k) ==
    /\ wk[w].pc = "insert"
    /\ LET m == Cur(w)
           row == UsersRow(mail[m].parsed[1], mail[m].email_type, k)
           rec == [wk[w] EXCEPT !.calls = @ \o <<Call("insert", Bool(ok))>>]
       IN  /\ ok => ~EmailLocked(w, row.email)
           /\ Set(w, IF ~ok THEN OnOperationalError(rec)
                     ELSE IF EmailTaken(row.email) THEN OnIntegrityError(rec)
                     ELSE [rec EXCEPT !.pc = "commit", !.tx = <<row>>])
    /\ UNCHANGED <<inbox, users, customers, handed, acked, cls, app, mail>>

\* INSERT INTO customers and conn.commit(): both rows become visible
\* together, or neither when the storage fails first.
InsertCustomerAndCommit(w, ok) ==
    /\ wk[w].pc = "commit"
    /\ LET m == Cur(w)
           user_id == Len(users) + 1
       IN  IF ok
           THEN /\ users' = Append(users, wk[w].tx[1])
                /\ customers' =
                       Append(customers,
                              CustomersRow(user_id, m, mail[m].email_type, mail[m].parsed[1]))
                /\ Set(w, Break([wk[w] EXCEPT !.outcome = "Accepted",
                                              !.ret = user_id, !.tx = Absent]))
           ELSE /\ Set(w, OnOperationalError(wk[w]))
                /\ UNCHANGED <<users, customers>>
    /\ UNCHANGED <<inbox, handed, acked, cls, app, mail>>

\* message.ack(), after which the callback returns.
Ack(w) ==
    /\ wk[w].pc = "ack"
    /\ acked' = acked + 1
    /\ Set(w, Idle)
    /\ UNCHANGED <<inbox, users, customers, handed, cls, app, mail>>

\* The steps of a callback once it holds a notification; Oks says whether
\* the storage can fail (FALSE) at a call.
Run(w, Oks) ==
    \/ \E ok \in Oks : CheckProcessed(w, ok)
    \/ \E got \in BOOLEAN : Fetch(w, got)
    \/ \E ok \in Oks : Recheck(w, ok)
    \/ \E ok \in Oks : LeadCheck(w, ok)
    \/ \E ok \in Oks, k \in Tokens : InsertUser(w, ok, k)
    \/ \E ok \in Oks : InsertCustomerAndCommit(w, ok)
    \/ Ack(w)

Deliver(w) == \E delivery \in Deliveries : Receive(w, delivery)

Arrival == \E m \in MailIds : Arrive(m)

Next ==
    \/ Arrival
    \/ \E w \in Workers : Deliver(w) \/ Run(w, BOOLEAN)

\* The callbacks run concurrently and the storage may fail at any call.
Spec == Init /\ [][Next]_vars

\* The callbacks run concurrently and the storage answers every call.
NextReliable ==
    \/ Arrival
    \/ \E w \in Workers : Deliver(w) \/ Run(w, {TRUE})

SpecReliable == Init /\ [][NextReliable]_vars

\* One notification is processed after another and the storage answers.
\* A notification is handed over once the callback before it has returned.
DeliverNext(w) ==
    /\ \A v \in Workers : wk[v].pc = "idle"
    /\ Deliver(w)

NextSeq ==
    \/ Arrival
    \/ \E w \in Workers : DeliverNext(w) \/ Run(w, {TRUE})

SpecSeq == Init /\ [][NextSeq]_vars

\* One notification is processed after another and the storage may fail at
\* any call.
NextSeqFailing ==
    \/ Arrival
    \/ \E w \in Workers : DeliverNext(w) \/ Run(w, BOOLEAN)

SpecSeqFailing == Init /\ [][NextSeqFailing]_vars

\* A callback that holds a notification keeps running until it returns.
FairSpec == Spec /\ \A w \in Workers : WF_vars(Run(w, BOOLEAN))

(***************************************************************************)
(* Notifications without end: the subscriber keeps handing notifications   *)
(* to process_message, every payload names the mailbox, Gmail and the      *)
(* storage answer every call, and a notification is handed over once the   *)
(* callback before it has returned.  The counters handed and acked are not *)
(* kept.                                                                   *)
(***************************************************************************)
\* The subscriber hands one more notification to process_message.
Notify(w) ==
    /\ \A v \in Workers : wk[v].pc = "idle"
    /\ Set(w, IF RecentMessages(inbox) = <<>> THEN Break(Idle)
              ELSE [Idle EXCEPT !.pc = "check",
                                !.recent = RecentMessages(inbox),
                                !.idx = 1])
    /\ UNCHANGED <<inbox, users, customers, handed, acked, cls, app, mail>>

\* message.ack(), after which the callback returns.
AckAndReturn(w) ==
    /\ wk[w].pc = "ack"
    /\ Set(w, Idle)
    /\ UNCHANGED <<inbox, users, customers, handed, acked, cls, app, mail>>

\* The steps of a callback when Gmail and the storage answer.
RunAnswered(w) ==
    \/ CheckProcessed(w, TRUE)
    \/ Fetch(w, TRUE)
    \/ Recheck(w, TRUE)
    \/ LeadCheck(w, TRUE)
    \/ \E k \in Tokens : InsertUser(w, TRUE, k)
    \/ InsertCustomerAndCommit(w, TRUE)
    \/ AckAndReturn(w)

NextRepeated ==
    \/ Arrival
    \/ \E w \in Workers : Notify(w) \/ RunAnswered(w)

\* Every callback keeps running until it returns and is handed a
\* notification again and again; uuid4 is random, so a callback that makes
\* up a placeholder again and again draws every token.
SpecRepeated ==
    /\ Init
    /\ [][NextRepeated]_vars
    /\ \A w \in Workers : WF_vars(Notify(w)) /\ WF_vars(RunAnswered(w))
    /\ \A w \in Workers, k \in Tokens : SF_vars(InsertUser(w, TRUE, k))

(***************************************************************************)
(* The class `from database import BodyBackDB` of listener.py binds in the *)
(* source tree: src/database/ has no __init__.py, so the import system     *)
(* finds the module src/database.py before the directory, and db is an     *)
(* instance of the BodyBackDB of that file.  Its save_lead parses with its *)
(* own methods, validates nothing and has no natural-key check.  The       *)
(* mailbox of this specification holds the structured-lead and unwatched   *)
(* messages; the contact-form extractor of database.py is not modelled.    *)
(***************************************************************************)
\* BodyBackDB.parse_new_lead of database.py: a dict in every case.
DatabasePyLeadOfLines(lines, email_body) ==
    IF Len(lines) >= MinLeadLines
    THEN [name |-> lines[1],
          phone |-> lines[2],
          email |-> lines[3],
          location |-> lines[4],
          customer_data |-> Join[SubSeq(lines, MinLeadLines + 1, Len(lines)), "\n"]]
    ELSE [name |-> IF lines # <<>> THEN lines[1] ELSE "",
          phone |-> "",
          email |-> "",
          location |-> "",
          customer_data |-> email_body]

DatabasePy_parse_new_lead(email_body) ==
    CHOOSE data \in {DatabasePyLeadOfLines(lines, email_body) :
                        lines \in {BodyLines(email_body)}} : TRUE

\* BodyBackDB.split_name of database.py: full_name.strip().split(' ', 1)
DatabasePy_split_name(full_name) ==
    IF full_name = "" THEN <<"", "">>
    ELSE IF Places(Strip(full_name), {" "}) = {} THEN <<Strip(full_name), "">>
    ELSE <<SubSeq(Strip(full_name), 1, Least(Places(Strip(full_name), {" "})) - 1),
           From(Strip(full_name), Least(Places(Strip(full_name), {" "})) + 1)>>

DatabasePyMailIds ==
    {m \in MailIds : identify_email_type(Mail[m].subject) \notin ContactTypes}

\* What get_email_content and the head of save_lead compute from message m.
DatabasePyExtract(m) ==
    [email_type |-> identify_email_type(Mail[m].subject),
     parsed |-> IF identify_email_type(Mail[m].subject) = "new_lead"
                THEN <<DatabasePy_parse_new_lead(Mail[m].body)>>
                ELSE Absent,
     calls |-> IF identify_email_type(Mail[m].subject) = "new_lead"
               THEN <<Call("parse_new_lead", "True")>>
               ELSE <<>>]

InitDatabasePy ==
    /\ mail = [m \in MailIds |-> DatabasePyExtract(m)]
    /\ inbox = <<>>
    /\ users = <<>>
    /\ customers = <<>>
    /\ wk = [w \in Workers |-> Idle]
    /\ handed = 0
    /\ acked = 0
    /\ cls = ClsIdle
    /\ app = AppIdle

\* process_watched_email: the second identifier check, then parse_new_lead
\* and split_name at the head of save_lead.
DatabasePyRecheck(w, ok) ==
    /\ wk[w].pc = "recheck"
    /\ LET m == Cur(w)
           found == email_already_processed(m, ok)
           rec == [wk[w] EXCEPT
                      !.calls = @ \o <<Call("email_already_processed", Bool(found))>>]
       IN  Set(w, IF ~SaveAfterCheck(found)
                  THEN Break([rec EXCEPT !.outcome = "SkippedDuplicate"])
                  ELSE [rec EXCEPT !.calls = @ \o mail[m].calls, !.pc = "insert"])
    /\ UNCHANGED <<inbox, users, customers, handed, acked, cls, app, mail>>

\* The row of INSERT INTO users of database.py.
DatabasePyUsersRow(parsed_data) ==
    [email |-> parsed_data.email,
     first_name |-> DatabasePy_split_name(parsed_data.name)[1],
     last_name |-> DatabasePy_split_name(parsed_data.name)[2],
     phone_number |-> parsed_data.phone,
     location |-> parsed_data.location]

\* The row of INSERT INTO customers of database.py.
DatabasePyCustomersRow(user_id, m, email_type, parsed_data) ==
    [user_id |-> user_id,
     gmail_id |-> m,
     source |-> email_type,
     customer_data |-> parsed_data.customer_data]

\* Both except branches of save_lead log an error and return None.
DatabasePyOnError(rec, error) ==
    Break([rec EXCEPT !.outcome = "SystemError", !.ret = 0, !.syserr = TRUE,
                      !.insertError = error, !.tx = Absent])

\* save_lead of database.py up to INSERT INTO users.
DatabasePyInsertUser(w, ok) ==
    /\ wk[w].pc = "insert"
    /\ LET row == DatabasePyUsersRow(mail[Cur(w)].parsed[1])
           rec == [wk[w] EXCEPT !.calls = @ \o <<Call("insert", Bool(ok))>>]
       IN  /\ ok => ~EmailLocked(w, row.email)
           /\ Set(w, IF ~ok THEN DatabasePyOnError(rec, "OperationalError")
                     ELSE IF EmailTaken(row.email)
                     THEN DatabasePyOnError(rec, "IntegrityError")
                     ELSE [rec EXCEPT !.pc = "commit", !.tx = <<row>>])
    /\ UNCHANGED <<inbox, users, customers, handed, acked, cls, app, mail>>

\* INSERT INTO customers and conn.commit() of database.py.
DatabasePyInsertCustomerAndCommit(w, ok) ==
    /\ wk[w].pc = "commit"
    /\ LET m == Cur(w)
           user_id == Len(users) + 1
       IN  IF ok
           THEN /\ users' = Append(users, wk[w].tx[1])
                /\ customers' =
                       Append(customers,
                              DatabasePyCustomersRow(user_id, m, mail[m].email_type,
                                                     mail[m].parsed[1]))
                /\ Set(w, Break([wk[w] EXCEPT !.outcome = "Accepted",
                                              !.ret = user_id, !.tx = Absent]))
           ELSE /\ Set(w, DatabasePyOnError(wk[w], "OperationalError"))
                /\ UNCHANGED <<users, customers>>
    /\ UNCHANGED <<inbox, handed, acked, cls, app, mail>>

DatabasePyRun(w, Oks) ==
    \/ \E ok \in Oks : CheckProcessed(w, ok)
    \/ \E got \in BOOLEAN : Fetch(w, got)
    \/ \E ok \in Oks : DatabasePyRecheck(w, ok)
    \/ \E ok \in Oks : DatabasePyInsertUser(w, ok)
    \/ \E ok \in Oks : DatabasePyInsertCustomerAndCommit(w, ok)
    \/ Ack(w)

DatabasePyArrival == \E m \in DatabasePyMailIds : Arrive(m)

NextDatabasePy ==
    \/ DatabasePyArrival
    \/ \E w \in Workers : Deliver(w) \/ DatabasePyRun(w, BOOLEAN)

\* The listener as the source tree runs it.
SpecDatabasePy == InitDatabasePy /\ [][NextDatabasePy]_vars

(***************************************************************************)
(* The classifier on its own: a subject is drawn, then classified as it    *)
(* is and with a forward prefix in front of it.                            *)
(***************************************************************************)
SubjectPieces ==
    {"NEW M LEAD", "new m Lead", "SA Home page message from \"BodyBack\"",
     "sa packages page message from \"bodyback\"", "Fwd: ", "fwd:", " ", "Re: x"}

\* The subjects made of at most MaxPieces pieces.
Subjects ==
    {Join[q, ""] : q \in UNION {[1..n -> SubjectPieces] : n \in 0..MaxPieces}}

\* Forms of the forward prefix: 'Fwd:' in any letter case, then whitespace.
ForwardPrefixes == {"Fwd:", "fwd: ", "FWD:  ", "fWd:\t "}

InitClassify ==
    /\ mail = <<>>
    /\ inbox = <<>>
    /\ users = <<>>
    /\ customers = <<>>
    /\ wk = [w \in Workers |-> Idle]
    /\ handed = 0
    /\ acked = 0
    /\ app = AppIdle
    /\ cls \in {[subject |-> subject, fwd |-> prefix \o subject,
                  direct |-> "?", forwarded |-> "?"] :
                     subject \in Subjects, prefix \in ForwardPrefixes}
              \cup {[subject |-> None, fwd |-> None,
                     direct |-> "?", forwarded |-> "?"]}

\* get_email_content's call of identify_email_type, on both subjects.
Classify ==
    /\ cls.direct = "?"
    /\ cls' = [cls EXCEPT !.direct = identify_email_type(cls.subject),
                          !.forwarded = identify_email_type(cls.fwd)]
    /\ UNCHANGED <<inbox, users, customers, wk, handed, acked, app, mail>>

SpecClassify == InitClassify /\ [][Classify]_vars

(***************************************************************************)
(* The functions of validators.py and parsers.py on their own: a function  *)
(* and an argument are drawn, then the function is applied.                *)
(***************************************************************************)
\* The strings of at most n characters of alphabet.
Texts(alphabet, n) ==
    {Join[q, ""] : q \in UNION {[1..k -> alphabet] : k \in 0..n}}

EmailArgs ==
    Texts({"a", "@", "."}, MaxChars) \cup {"a@b.c", "no-at-sign.com", "a.b@c"}

PhonePieces == {"082 123 4", "12345678", "67", "6", "9", " ", "-", "x"}

\* The numbers made of at most MaxPieces pieces.
PhoneArgs ==
    {Join[q, ""] : q \in UNION {[1..n -> PhonePieces] : n \in 0..MaxPieces}}
        \cup {"082 123 4567", "1234"}

\* Names over two letters, two separators and a digit.
NameArgs ==
    Texts({"J", "o", " ", "-", "1"}, MaxChars)
        \cup {"12", "John Smith", "Mary Jane Watson"}

SplitNameArgs == Texts({"a", "b", " ", "\t"}, MaxChars) \cup {"Mary Jane Watson"}

CleanTextArgs == Texts({"a", "b", " ", "\n", "\t"}, MaxChars)

\* Bodies of structured-lead messages: the lines of the body, the gap
\* between two lines and the padding around the body.
LeadDraws ==
    [lines : {<<>>, <<"Jane Doe">>, <<"Jane Doe", "0821234567">>,
              <<"Jane Doe", "0821234567", "jane@x.co">>}
             \cup {<<name, phone, email, "Cape Town">> \o notes :
                     name \in {"Jane Doe", "J", "12 34"},
                     phone \in {"0821234567", "082 123 456", "08212345"},
                     email \in {"jane@x.co", "jane.x@co", "j@x."},
                     notes \in {<<>>, <<"Call me">>, <<"Call me", "after 5">>}},
     gap : {"\n", " \n\n\t"},
     pad : {"", "\n "}]

\* The body a draw stands for.
LeadBody(draw) == draw.pad \o Join[draw.lines, draw.gap] \o draw.pad

\* Bodies of contact-form messages: the values typed into the form and
\* the sections of the template the body holds.
ContactDraws ==
    [name : {"John Smith", "Jo", "J", "12"},
     phone : {"0831112222", "083 111 2222", "12345", ""},
     location : {"Durban", ""},
     sections : {"all", "no goals", "no location"}]

\* The body a draw stands for.
ContactFormBody(draw) ==
    "*Name and Surname**\n" \o draw.name
        \o "\n*Number (10 digits)**\n" \o draw.phone
        \o (IF draw.sections = "no location" THEN ""
            ELSE "\n*Location*\n" \o draw.location)
        \o (IF draw.sections = "all"
            THEN "\n*Goals, injuries & other details*\nBack pain\nDate: 1 Jan"
            ELSE "")

\* Bodies that write the labels of the name and the number as older
\* layouts of the form did, or not at all.
OtherFormBodies ==
    {"Name and Surname\nJohn Smith\nNumber\n0831112222",
     "*Name and Surname*\n12 Main\n*Number (10 digits)*\n12345\n083 111 2222",
     "Name and Surname*\n\n1\n2\n3\n4\n5\nJOHN SMITH\nNumber (10 digits)\n1\n2\n3\n4\n5\n 0831112222",
     "Hello\nName and Surname John\nnumber 083111222",
     "no labels 0831112222 here"}

\* The contact-form bodies drawn.
ContactFormBodies ==
    {ContactFormBody(draw) : draw \in ContactDraws} \cup OtherFormBodies

\* Function fn drawn with one of args, not applied yet.
Draws(fn, args) == {[fn |-> fn, arg |-> arg, out |-> <<>>] : arg \in args}

InitFunctions ==
    /\ mail = <<>>
    /\ inbox = <<>>
    /\ users = <<>>
    /\ customers = <<>>
    /\ wk = [w \in Workers |-> Idle]
    /\ handed = 0
    /\ acked = 0
    /\ cls = ClsIdle
    /\ app \in Draws("is_valid_email", EmailArgs)
                \cup Draws("is_valid_phone", PhoneArgs)
                \cup Draws("is_valid_name", NameArgs)
                \cup Draws("split_name", SplitNameArgs)
                \cup Draws("clean_text", CleanTextArgs)
                \cup Draws("parse_new_lead", {LeadBody(draw) : draw \in LeadDraws})
                \cup Draws("parse_contact_form", ContactFormBodies)
                \cup Draws("parse_contact_form fields", ContactFormBodies)

\* The function drawn is fn and it has not been applied yet.
Drawn(fn) == app.fn = fn /\ app.out = <<>>

Returns(value) ==
    /\ app' = [app EXCEPT !.out = <<value>>]
    /\ UNCHANGED <<inbox, users, customers, wk, handed, acked, cls, mail>>

ApplyIsValidEmail == Drawn("is_valid_email") /\ Returns(is_valid_email(app.arg))

ApplyIsValidPhone == Drawn("is_valid_phone") /\ Returns(is_valid_phone(app.arg))

ApplyIsValidName == Drawn("is_valid_name") /\ Returns(is_valid_name(app.arg))

ApplySplitName == Drawn("split_name") /\ Returns(split_name(app.arg))

\* clean_text applied to the argument, then to its own result.
ApplyCleanText ==
    /\ app.fn = "clean_text"
    /\ Len(app.out) < 2
    /\ app' = [app EXCEPT !.out =
                  Append(@, clean_text(IF @ = <<>> THEN app.arg ELSE @[1]))]
    /\ UNCHANGED <<inbox, users, customers, wk, handed, acked, cls, mail>>

ApplyParseNewLead == Drawn("parse_new_lead") /\ Returns(parse_new_lead(app.arg))

ApplyParseContactForm ==
    Drawn("parse_contact_form") /\ Returns(parse_contact_form(app.arg))

\* The four loops of parse_contact_form, up to the gate.
ApplyContactFields ==
    Drawn("parse_contact_form fields") /\ Returns(ContactFields(app.arg))

NextFunctions ==
    \/ ApplyIsValidEmail
    \/ ApplyIsValidPhone
    \/ ApplyIsValidName
    \/ ApplySplitName
    \/ ApplyCleanText
    \/ ApplyParseNewLead
    \/ ApplyParseContactForm
    \/ ApplyContactFields

SpecFunctions == InitFunctions /\ [][NextFunctions]_vars

(***************************************************************************)
(* Properties.                                                             *)
(***************************************************************************)
\* The stored records that carry message identifier m.
RecordsOf(m) == {i \in DOMAIN customers : customers[i].gmail_id = m}

\* The calls of fn in the log of thread w.
CallsOf(w, fn) == {i \in DOMAIN wk[w].calls : wk[w].calls[i].fn = fn}

\* Thread w is past the first identifier check of the message at hand.
InPipeline(w) == wk[w].pc \in {"fetch", "recheck", "leadcheck", "insert", "commit"}

\* C1: when notifications are processed one after another and the storage
\* answers, at most one record carries a given message identifier, an
\* accepted message has exactly one, and a delivery of a message that has a
\* record ends as a duplicate at its first check, without an insert.
C1_OneRecordPerMessage ==
    /\ \A m \in MailIds : Cardinality(RecordsOf(m)) <= 1
    /\ \A w \in Workers :
          /\ wk[w].outcome = "Accepted" => Cardinality(RecordsOf(Cur(w))) = 1
          /\ InPipeline(w) => RecordsOf(Cur(w)) = {}
          /\ (wk[w].calls # <<>>
                 /\ wk[w].calls[1] = Call("email_already_processed", "True"))
             => /\ wk[w].outcome = "SkippedDuplicate"
                /\ CallsOf(w, "insert") = {}

\* A delivery of a message that already has its record was skipped.
C1_Witness ==
    \E w \in Workers :
        /\ wk[w].calls = <<Call("email_already_processed", "True")>>
        /\ wk[w].outcome = "SkippedDuplicate"
        /\ wk[w].pc = "ack"
        /\ Cardinality(RecordsOf(Cur(w))) = 1

\* The contact-form records whose lead has phone number phone.
ContactRecords(phone) ==
    {i \in DOMAIN customers :
        /\ customers[i].source \in ContactTypes
        /\ users[customers[i].user_id].phone_number = phone}

\* C2: contact-form messages with distinct identifiers and the same phone
\* number leave one record, also when their pipelines interleave.
C2_OneRecordPerPhone ==
    \A i, j \in DOMAIN customers :
        (/\ i # j
         /\ customers[i].gmail_id # customers[j].gmail_id
         /\ users[customers[i].user_id].phone_number # "")
        => ~({i, j} \subseteq ContactRecords(users[customers[i].user_id].phone_number))

\* The threads whose message is a structured-template message with address
\* email and whose natural-key check returned False.
PassedCheck(email) ==
    {w \in Workers :
        /\ wk[w].idx > 0
        /\ mail[Cur(w)].email_type = "new_lead"
        /\ mail[Cur(w)].parsed # Absent
        /\ mail[Cur(w)].parsed[1].email = email
        /\ \E i \in CallsOf(w, "lead_already_exists") : wk[w].calls[i].r = "False"}

\* C3: with storage that answers, no two stored leads share an address,
\* and of the threads that passed the natural-key check for the same
\* address at most one is accepted while none is in the system-error state.
C3_OneSurvivor ==
    /\ \A i, j \in DOMAIN users : users[i].email = users[j].email => i = j
    /\ \A w \in Workers : wk[w].outcome # "SystemError"
    /\ \A w, v \in Workers :
          (/\ w # v
           /\ \E m \in MailIds :
                 /\ mail[m].parsed # Absent
                 /\ {w, v} \subseteq PassedCheck(mail[m].parsed[1].email))
          => ~(wk[w].outcome = "Accepted" /\ wk[v].outcome = "Accepted")

\* Two messages with the same address passed the check together; one was
\* accepted, the other met the uniqueness conflict and ended as a duplicate.
C3_Witness ==
    \E w, v \in Workers :
        /\ w # v
        /\ wk[w].idx > 0 /\ wk[v].idx > 0
        /\ Cur(w) # Cur(v)
        /\ {w, v} \subseteq PassedCheck("jane@x.co")
        /\ wk[w].outcome = "Accepted"
        /\ wk[v].insertError = "IntegrityError"
        /\ wk[v].outcome = "SkippedDuplicate"

\* The functions a message without a known template must not reach.
PipelineCalls ==
    {"parse_new_lead", "parse_contact_form", "is_valid_name", "is_valid_phone",
     "is_valid_email", "email_already_processed", "lead_already_exists", "insert"}

C5_FailurePropagates ==
    \A w \in Workers :
        wk[w].insertError = "OperationalError"
        => wk[w].raised /\ wk[w].pc # "ack"

\* The callbacks that hold a notification.
Active == {w \in Workers : wk[w].pc # "idle"}

PreChecksFalse(w) ==
    /\ CallsOf(w, "lead_already_exists") # {}
    /\ \A i \in CallsOf(w, "email_already_processed") \cup CallsOf(w, "lead_already_exists") :
          wk[w].calls[i].r = "False"

\* C7: a step in which the insert of thread w meets the uniqueness conflict
\* leaves both tables as they were and ends save_lead with None, as a
\* duplicate, without an exception and without a system error.
C7_BenignConflict ==
    [][\A w \in Workers :
          (wk[w].insertError # "IntegrityError"
              /\ wk'[w].insertError = "IntegrityError")
          => /\ PreChecksFalse(w)
             /\ users' = users
             /\ customers' = customers
             /\ wk'[w].tx = Absent
             /\ wk'[w].ret = 0
             /\ wk'[w].outcome = "SkippedDuplicate"
             /\ ~wk'[w].raised
             /\ ~wk'[w].syserr]_vars

\* An insert met the uniqueness conflict after its pre-checks returned False.
C7_Witness ==
    \E w \in Workers :
        /\ wk[w].insertError = "IntegrityError"
        /\ PreChecksFalse(w)
        /\ Len(users) = 1

\* The terminal outcomes of the pipeline's state machine.
Outcomes == {"Dropped", "Rejected", "SkippedDuplicate", "Accepted"}

Extractors == {"parse_new_lead", "parse_contact_form"}

DuplicateChecks == {"email_already_processed", "lead_already_exists"}

\* An insert is called only for a classified message whose extraction
\* returned a record and whose duplicate checks all returned False.
InsertOnlyWhenCleared(w) ==
    \A n \in CallsOf(w, "insert") :
        /\ \E i \in 1..(n - 1) :
              /\ wk[w].calls[i].fn = "identify_email_type"
              /\ wk[w].calls[i].r # None
        /\ \E i \in 1..(n - 1) :
              /\ wk[w].calls[i].fn \in Extractors
              /\ wk[w].calls[i].r = "True"
        /\ \E i \in 1..(n - 1) : wk[w].calls[i] = Call("lead_already_exists", "False")
        /\ \E i \in 1..(n - 1) : wk[w].calls[i] = Call("email_already_processed", "False")
        /\ \A i \in DOMAIN wk[w].calls :
              wk[w].calls[i].fn \in DuplicateChecks => wk[w].calls[i].r = "False"

Stage(w, i) ==
    LET fn == wk[w].calls[i].fn
    IN  IF fn = "email_already_processed" THEN (IF i = 1 THEN 1 ELSE 4)
        ELSE IF fn = "get_email_content" THEN 2
        ELSE IF fn = "identify_email_type" THEN 3
        ELSE IF fn \in Extractors THEN 5
        ELSE IF fn = "is_valid_name" THEN 6
        ELSE IF fn = "is_valid_phone" THEN 7
        ELSE IF fn = "is_valid_email" THEN 8
        ELSE IF fn = "lead_already_exists" THEN 9
        ELSE 10

Last(q) == q[Len(q)]

C9_OnlyInsertWrites ==
    [][(users' # users \/ customers' # customers)
       => /\ Len(users') = Len(users) + 1
          /\ Len(customers') = Len(customers) + 1
          /\ SubSeq(users', 1, Len(users)) = users
          /\ SubSeq(customers', 1, Len(customers)) = customers
          /\ \E w \in Workers :
                /\ wk[w].pc = "commit"
                /\ wk'[w].outcome = "Accepted"
                /\ wk'[w].ret = Last(customers').user_id
                /\ Last(customers').gmail_id = Cur(w)
                /\ Last(users') = wk[w].tx[1]]_vars

\* With one lead stored, an insert was abandoned by a storage failure and
\* another message was skipped by a check.
C9_Witness ==
    /\ Len(users) = 1
    /\ Len(customers) = 1
    /\ \E w, v \in Workers :
          /\ wk[w].insertError = "OperationalError"
          /\ wk[v].outcome = "SkippedDuplicate"
          /\ Last(wk[v].calls) = Call("lead_already_exists", "True")

\* C10: a subject and the same subject behind a forward prefix classify
\* alike.
C10_ForwardPrefixIgnored ==
    cls.direct # "?" => cls.forwarded = cls.direct

\* A subject that starts with a forward prefix of its own and names a
\* template was classified behind a second prefix.
C10_Witness ==
    /\ cls.direct = "packages_page"
    /\ cls.forwarded = "packages_page"
    /\ StartsWith[cls.subject, "Fwd: "]

\* The template the subject is to get: the first, in the order new_lead,
\* home_page, packages_page, whose fragment the cleaned subject contains
\* whatever the letter case; none for a subject that is missing or empty.
FirstContained(subject) ==
    IF subject = None \/ subject = "" THEN None
    ELSE IF Contains[Lower[CleanSubject(subject)], "new m lead"]
    THEN "new_lead"
    ELSE IF Contains[Lower[CleanSubject(subject)],
                     "sa home page message from \"bodyback\""]
    THEN "home_page"
    ELSE IF Contains[Lower[CleanSubject(subject)],
                     "sa packages page message from \"bodyback\""]
    THEN "packages_page"
    ELSE None

\* C11: the classifier returns the first template, in the order new_lead,
\* home_page, packages_page, whose fragment the cleaned subject contains
\* case-insensitively, and None when no fragment is contained or the
\* subject is empty or missing; it always returns one of these four values.
C11_FirstTemplateInOrder ==
    cls.direct # "?" =>
        /\ cls.direct = FirstContained(cls.subject)
        /\ cls.forwarded = FirstContained(cls.fwd)
        /\ cls.direct \in {"new_lead", "home_page", "packages_page", None}

\* A subject that holds the home-page fragment and then the new-lead
\* fragment was classified as new_lead.
C11_Witness ==
    /\ cls.subject = "SA Home page message from \"BodyBack\"new m Lead"
    /\ cls.direct = "new_lead"

\* Function fn was applied and returned value.
Returned(fn, value) == app.fn = fn /\ app.out = <<value>>

\* Function fn was applied.
Applied(fn) == app.fn = fn /\ app.out # <<>>

\* The place of the last '@' of s, 0 when s has none.
LastAt(s) ==
    IF \E i \in 1..Len(s) : Ch(s, i) = "@"
    THEN CHOOSE i \in 1..Len(s) :
             /\ Ch(s, i) = "@"
             /\ \A j \in (i + 1)..Len(s) : Ch(s, j) # "@"
    ELSE 0

\* C16: is_valid_email(s) is true iff s has at least 5 characters, holds
\* an '@', and has a '.' somewhere after its last '@'.
C16_EmailValidity ==
    Applied("is_valid_email") =>
        app.out[1] = (/\ Len(app.arg) >= 5
                      /\ LastAt(app.arg) > 0
                      /\ \E j \in (LastAt(app.arg) + 1)..Len(app.arg) :
                             Ch(app.arg, j) = ".")

\* An address of five characters whose only dot is before its last '@'
\* was rejected.
C16_Witness ==
    /\ app.arg = "a.b@c"
    /\ Returned("is_valid_email", FALSE)

\* The number of digit characters of s.
DigitCount(s) ==
    Cardinality({i \in 1..Len(s) :
        Ch(s, i) \in {"0", "1", "2", "3", "4", "5", "6", "7", "8", "9"}})

\* C17: is_valid_phone(s) is true iff s holds at least 9 digit characters,
\* whatever separates them; it is false for the empty string.
C17_PhoneValidity ==
    Applied("is_valid_phone") =>
        /\ app.out[1] = (DigitCount(app.arg) >= 9)
        /\ app.arg = "" => app.out[1] = FALSE

\* A number of eight digits and more than nine characters was rejected.
C17_Witness ==
    /\ app.arg = "082 123 46"
    /\ Returned("is_valid_phone", FALSE)

\* s without the whitespace at its ends.
Trimmed(s) ==
    IF \A i \in 1..Len(s) : Ch(s, i) \in WhiteSpace THEN ""
    ELSE SubSeq(s, CHOOSE i \in 1..Len(s) :
                       /\ Ch(s, i) \notin WhiteSpace
                       /\ \A j \in 1..(i - 1) : Ch(s, j) \in WhiteSpace,
                   CHOOSE i \in 1..Len(s) :
                       /\ Ch(s, i) \notin WhiteSpace
                       /\ \A j \in (i + 1)..Len(s) : Ch(s, j) \in WhiteSpace)

\* c is an alphabetic character, one of the letters a-z, A-Z.
IsAlphabetic(c) ==
    \E i \in 1..26 :
        \/ c = Ch("abcdefghijklmnopqrstuvwxyz", i)
        \/ c = Ch("ABCDEFGHIJKLMNOPQRSTUVWXYZ", i)

\* C18: is_valid_name(s) is true iff s without the whitespace at its ends
\* has at least 2 characters and s holds an alphabetic character; it is
\* false for the empty string, for a string of whitespace and for a string
\* without a letter.
C18_NameValidity ==
    Applied("is_valid_name") =>
        /\ app.out[1] = (/\ Len(Trimmed(app.arg)) >= 2
                         /\ \E i \in 1..Len(app.arg) :
                                IsAlphabetic(Ch(app.arg, i)))
        /\ Trimmed(app.arg) = "" => app.out[1] = FALSE

\* A name of one letter between two spaces was rejected.
C18_Witness ==
    /\ app.arg = " J "
    /\ Returned("is_valid_name", FALSE)

\* The places of t that survive the collapse of its whitespace runs: the
\* characters that are not whitespace and the first character of each run.
Kept(t) ==
    {i \in 1..Len(t) :
        Ch(t, i) \in WhiteSpace => i > 1 /\ Ch(t, i - 1) \notin WhiteSpace}

\* out is t with every maximal run of whitespace replaced by one space.
IsCollapseOf(out, t) ==
    /\ Len(out) = Cardinality(Kept(t))
    /\ \A i \in Kept(t) :
          Ch(out, Cardinality({k \in Kept(t) : k <= i})) =
              (IF Ch(t, i) \in WhiteSpace THEN " " ELSE Ch(t, i))

\* C20: clean_text removes the whitespace at the ends and replaces every
\* maximal run of whitespace by one space; the empty string gives the
\* empty string; the result has no two adjacent whitespace characters and
\* none at either end; clean_text of the result is the result.
C20_CleanTextCollapsesAndIsIdempotent ==
    Applied("clean_text") =>
        /\ IsCollapseOf(app.out[1], Trimmed(app.arg))
        /\ app.arg = "" => app.out[1] = ""
        /\ \A i \in 1..Len(app.out[1]) :
              Ch(app.out[1], i) \in WhiteSpace =>
                  /\ Ch(app.out[1], i) = " "
                  /\ 1 < i /\ i < Len(app.out[1])
                  /\ Ch(app.out[1], i + 1) \notin WhiteSpace
        /\ Len(app.out) = 2 => app.out[2] = app.out[1]

\* A text with whitespace at its ends and a run of a newline and a tab
\* inside was cleaned twice.
C20_Witness ==
    /\ app.fn = "clean_text"
    /\ app.arg = " a\n\tb "
    /\ app.out = <<"a b", "a b">>

\* The record of a body of these lines, four at least and six
\* at most: name, phone, email and location are the first four lines and
\* the notes are the lines after them joined by newlines.
RecordOfLines(lines) ==
    [name |-> lines[1], phone |-> lines[2], email |-> lines[3],
     location |-> lines[4],
     customer_data |-> IF Len(lines) = 4 THEN ""
                       ELSE IF Len(lines) = 5 THEN lines[5]
                       ELSE lines[5] \o "\n" \o lines[6]]

\* C13: for a body of four or more non-empty trimmed lines, parse_new_lead
\* returns a record iff line 1 is a valid name, line 2 a valid phone and
\* line 3 a valid email; the record is made of the first four lines and of
\* the remaining lines joined by newlines; otherwise it returns None.
C13_LeadRecordIffLinesValid ==
    Applied("parse_new_lead") =>
        \A draw \in LeadDraws :
            (LeadBody(draw) = app.arg /\ Len(draw.lines) >= 4) =>
                app.out[1] =
                    (IF /\ is_valid_name(draw.lines[1])
                        /\ is_valid_phone(draw.lines[2])
                        /\ is_valid_email(draw.lines[3])
                     THEN <<RecordOfLines(draw.lines)>>
                     ELSE Absent)

\* A body of six lines with blank lines and indentation between them gave
\* a record with two lines of notes.
C13_Witness ==
    /\ Applied("parse_new_lead")
    /\ Contains[app.arg, "Doe \n\n\t082"]
    /\ app.out[1] = <<[name |-> "Jane Doe", phone |-> "082 123 456",
                       email |-> "jane@x.co", location |-> "Cape Town",
                       customer_data |-> "Call me\nafter 5"]>>

\* C14: parse_contact_form returns a record iff the extracted name is a
\* valid name and the extracted phone is a valid phone or the extracted
\* location is not empty; the record holds the extracted values.  A valid
\* name with a location and no phone is accepted, a valid name with
\* neither is not.
C14_ContactAcceptedIffNameAndPhoneOrLocation ==
    Applied("parse_contact_form") =>
        /\ (app.out[1] # Absent) =
               (/\ is_valid_name(ContactName(app.arg))
                /\ \/ is_valid_phone(ContactPhone(app.arg))
                   \/ ContactLocation(app.arg) # "")
        /\ app.out[1] # Absent =>
               /\ app.out[1][1].name = ContactName(app.arg)
               /\ app.out[1][1].phone = ContactPhone(app.arg)
               /\ app.out[1][1].location = ContactLocation(app.arg)
        /\ app.arg = ContactFormBody([name |-> "John Smith", phone |-> "",
                                      location |-> "Durban", sections |-> "all"])
               => app.out[1] # Absent
        /\ app.arg = ContactFormBody([name |-> "John Smith", phone |-> "",
                                      location |-> "", sections |-> "no goals"])
               => app.out[1] = Absent

\* A form with a valid name, a location and a number of five digits gave a
\* record.
C14_Witness ==
    /\ Applied("parse_contact_form")
    /\ app.out[1] = <<[name |-> "John Smith", phone |-> "12345", email |-> "",
                       location |-> "Durban", customer_data |-> "Back pain"]>>

PlaceholderDomain == "@bodyback-lead.local"

\* The address has the format of a placeholder: 'contact_' or 'lead_', a
\* token, then the placeholder domain.
IsPlaceholder(email) ==
    \E prefix \in {"contact_", "lead_"} :
        /\ Len(email) > Len(prefix) + Len(PlaceholderDomain)
        /\ StartsWith[email, prefix]
        /\ From(email, Len(email) - Len(PlaceholderDomain) + 1) = PlaceholderDomain

\* C15: no address stored as a real one, collected from the body of a
\* structured lead, has the format of a placeholder, and every contact-form
\* record is stored with a placeholder that is not marked real.
C15_RealAddressesAreNotPlaceholders ==
    \A i \in DOMAIN customers :
        /\ customers[i].has_real_email =>
               ~IsPlaceholder(users[customers[i].user_id].email)
        /\ customers[i].source \in ContactTypes =>
               /\ IsPlaceholder(users[customers[i].user_id].email)
               /\ ~customers[i].has_real_email

\* C12: no record is stored from a body that has fewer than 4 non-empty
\* trimmed lines.
C12_NoLeadFromShortBody ==
    \A i \in DOMAIN customers :
        Len(BodyLines(Mail[customers[i].gmail_id].body)) >= 4

\* The split on whitespace: no token gives two empty strings, one
\* token the token and an empty string, more tokens all but the last
\* joined by single spaces and the last.
TokenSplit(name) ==
    IF Words(name) = <<>> THEN <<"", "">>
    ELSE IF Len(Words(name)) = 1 THEN <<Words(name)[1], "">>
    ELSE <<Join[SubSeq(Words(name), 1, Len(Words(name)) - 1), " "],
           Words(name)[Len(Words(name))]>>

\* C19: the first and last name of every stored lead are the split of the
\* lead's name on whitespace with the last token as last name.
C19_StoredNamesSplitOnLastToken ==
    \A i \in DOMAIN customers :
        <<users[customers[i].user_id].first_name,
          users[customers[i].user_id].last_name>> =
            TokenSplit(mail[customers[i].gmail_id].parsed[1].name)

\* The patterns of the name list that match the body.
NameMatching(body) == {i \in 1..6 : NameCapture(body, i) # None}

\* The patterns of the phone list that match the body.
PhoneMatching(body) == {i \in 1..6 : PhoneCapture(body, i) # None}

\* The capture after clean_text and the removal of what follows an
\* asterisk.
CleanedCapture(capture) ==
    IF \E i \in 1..Len(clean_text(capture)) : Ch(clean_text(capture), i) = "*"
    THEN Trimmed(SubSeq(clean_text(capture), 1,
             (CHOOSE i \in 1..Len(clean_text(capture)) :
                 /\ Ch(clean_text(capture), i) = "*"
                 /\ \A j \in 1..(i - 1) : Ch(clean_text(capture), j) # "*") - 1))
    ELSE clean_text(capture)

NameAccepting(body) ==
    {i \in NameMatching(body) :
        /\ Len(CleanedCapture(NameCapture(body, i))) >= 2
        /\ \E k \in 1..Len(CleanedCapture(NameCapture(body, i))) :
              IsAlphabetic(Ch(CleanedCapture(NameCapture(body, i)), k))}

C22_ReturnedRecordsAreValidated ==
    ((Applied("parse_new_lead") \/ Applied("parse_contact_form"))
        /\ app.out[1] # Absent)
    => /\ Len(Trimmed(app.out[1][1].name)) >= 2
       /\ \E i \in 1..Len(app.out[1][1].name) :
              IsAlphabetic(Ch(app.out[1][1].name, i))
       /\ \/ app.out[1][1].phone = ""
          \/ DigitCount(app.out[1][1].phone) >= 9

\* C23: at the step that makes the natural-key check, a structured lead
\* is skipped iff a stored row has its email, a contact-form lead with a
\* phone is skipped iff a stored row has its phone number, and a
\* contact-form lead without a phone is not skipped; the other column
\* plays no part.
C23_NaturalKeyByTemplate ==
    [][\A w \in Workers :
          (wk[w].pc = "leadcheck" /\ wk'[w].pc # "leadcheck")
          => /\ mail[Cur(w)].email_type = "new_lead"
                => (wk'[w].outcome = "SkippedDuplicate"
                       <=> \E i \in DOMAIN users :
                               users[i].email = mail[Cur(w)].parsed[1].email)
             /\ mail[Cur(w)].email_type \in {"home_page", "packages_page"}
                => (wk'[w].outcome = "SkippedDuplicate"
                       <=> /\ mail[Cur(w)].parsed[1].phone # ""
                           /\ \E i \in DOMAIN users :
                                  users[i].phone_number = mail[Cur(w)].parsed[1].phone)]_vars

\* A structured lead passed the natural-key check while a stored row, of a
\* contact-form lead, has its phone number.
C23_Witness ==
    \E w \in Workers :
        /\ wk[w].pc = "insert"
        /\ mail[Cur(w)].email_type = "new_lead"
        /\ Last(wk[w].calls) = Call("lead_already_exists", "False")
        /\ \E i \in DOMAIN users :
              /\ users[i].phone_number = mail[Cur(w)].parsed[1].phone
              /\ users[i].email # mail[Cur(w)].parsed[1].email

\* The customers rows that belong to users row i.
CustomersOf(i) == {j \in DOMAIN customers : customers[j].user_id = i}

\* C24: in every state, also after a storage failure between the two
\* INSERT statements, every users row has exactly one customers row, which
\* carries the identifier of the message the lead was extracted from, and
\* every customers row has its users row; so the identifier check finds
\* the message of every stored lead.
C24_RowsPersistedTogether ==
    /\ \A i \in DOMAIN users :
          /\ Cardinality(CustomersOf(i)) = 1
          /\ \A j \in CustomersOf(i) :
                /\ customers[j].gmail_id \in 1..Len(mail)
                /\ mail[customers[j].gmail_id].parsed # <<>>
                /\ users[i].phone_number = mail[customers[j].gmail_id].parsed[1].phone
                /\ users[i].location = mail[customers[j].gmail_id].parsed[1].location
    /\ \A j \in DOMAIN customers : customers[j].user_id \in DOMAIN users

\* The storage failed after INSERT INTO users had succeeded, and neither
\* table holds a row.
C24_Witness ==
    /\ users = <<>>
    /\ customers = <<>>
    /\ \E w \in Workers :
          /\ wk[w].insertError = "OperationalError"
          /\ wk[w].calls # <<>>
          /\ wk[w].calls[Len(wk[w].calls)] = [fn |-> "insert", r |-> "True"]

\* A stored row has the natural key of the lead of message m: the email
\* of a structured lead, the phone of a contact-form lead that has one.
KeyStored(m) ==
    \E i \in DOMAIN users :
        IF mail[m].parsed = <<>> THEN FALSE
        ELSE IF mail[m].email_type = "new_lead"
        THEN users[i].email = mail[m].parsed[1].email
        ELSE /\ mail[m].parsed[1].phone # ""
             /\ users[i].phone_number = mail[m].parsed[1].phone

\* C25: with notifications without end, every watched email of the inbox
\* whose extractor returns a record is eventually persisted, unless a
\* stored row has its natural key.
C25_ValidLeadEventuallyPersisted ==
    \A m \in MailIds :
        ((\E i \in DOMAIN inbox : inbox[i] = m) /\ mail[m].parsed # <<>>)
            ~> (RecordsOf(m) # {} \/ KeyStored(m))

\* The positions of a callback inside process_watched_email.
HandedOver == {"recheck", "leadcheck", "insert", "commit"}

\* C26: a callback that has handed an email to the lead pipeline does not
\* go back to the loop over the recent messages: it stays with that email
\* until it acknowledges and returns.  The email handed over is one whose
\* identifier check returned False, that was fetched and has a watched
\* type, and the loop reaches it by passing over the emails before it one
\* by one.  A callback executes INSERT INTO users only for the email handed
\* over, and a step adds at most one row to each table.
C26_AtMostOneHandedOver ==
    [][/\ \A w \in Workers :
             /\ wk[w].pc \in HandedOver
                => /\ wk'[w].pc \in HandedOver \cup {"ack"}
                   /\ wk'[w].recent = wk[w].recent
                   /\ wk'[w].idx = wk[w].idx
             /\ wk[w].pc = "ack" => wk'[w].pc \in {"ack", "idle"}
             /\ (wk[w].pc \notin HandedOver /\ wk'[w].pc \in HandedOver)
                => /\ wk[w].pc = "fetch"
                   /\ wk'[w].pc = "recheck"
                   /\ wk'[w].idx = wk[w].idx
                   /\ mail[wk[w].recent[wk[w].idx]].email_type # "<None>"
                   /\ wk'[w].calls =
                          <<[fn |-> "email_already_processed", r |-> "False"],
                            [fn |-> "get_email_content", r |-> "True"],
                            [fn |-> "identify_email_type",
                             r |-> mail[wk[w].recent[wk[w].idx]].email_type]>>
             /\ (wk'[w].idx # wk[w].idx /\ wk'[w].pc # "idle")
                => /\ wk[w].pc \in {"idle", "check", "fetch"}
                   /\ wk'[w].pc = "check"
                   /\ wk'[w].idx = wk[w].idx + 1
             /\ (wk'[w].tx # wk[w].tx /\ wk'[w].tx # <<>>)
                => wk[w].pc = "insert" /\ wk'[w].pc = "commit"
       /\ Len(users') <= Len(users) + 1
       /\ Len(customers') <= Len(customers) + 1]_vars

\* A callback has stored the lead of the most recent email and is about to
\* acknowledge, while the other email of its list, a valid lead of a
\* watched type, has no record.
C26_Witness ==
    \E w \in Workers :
        /\ wk[w].pc = "ack"
        /\ wk[w].outcome = "Accepted"
        /\ wk[w].idx = 1
        /\ Len(wk[w].recent) = 2
        /\ mail[wk[w].recent[2]].parsed # <<>>
        /\ RecordsOf(wk[w].recent[2]) = {}
        /\ \A v \in Workers \ {w} : wk[v].pc = "idle"

\* The call a callback made last for the message at hand.
LastCall(rec) == rec.calls[Len(rec.calls)]

\* C27: a duplicate check answers True only for what is stored, so a query
\* that raises is never taken for a duplicate: email_already_processed
\* answers True only when a customers row has the identifier, and
\* lead_already_exists only when a users row has the natural key.  When a
\* check answers False, whether or not the row is stored, the pipeline goes
\* on: from the head of the loop to the fetch, from process_watched_email
\* to the extraction and the natural-key check (or ends with a rejected
\* body), from the natural-key check to the insert.  A structured lead is
\* not stored twice: the unique address of its row rejects the insert.
C27_FailedCheckIsNotDuplicate ==
    [][/\ \A w \in Workers :
             /\ (wk[w].pc = "check" /\ wk'[w] # wk[w])
                => LET m == wk[w].recent[wk[w].idx]
                   IN  IF RecordsOf(m) = {}
                          \/ wk'[w].pc = "fetch"
                       THEN /\ wk'[w].pc = "fetch"
                            /\ LastCall(wk'[w]) = Call("email_already_processed", "False")
                       ELSE wk'[w].outcome = "SkippedDuplicate"
             /\ (wk[w].pc = "recheck" /\ wk'[w] # wk[w])
                => LET m == wk[w].recent[wk[w].idx]
                   IN  IF wk'[w].outcome = "SkippedDuplicate"
                       THEN RecordsOf(m) # {} /\ wk'[w].pc = "ack"
                       ELSE IF mail[m].parsed = <<>>
                       THEN wk'[w].pc = "ack" /\ wk'[w].outcome = "Rejected"
                       ELSE wk'[w].pc = "leadcheck"
             /\ (wk[w].pc = "leadcheck" /\ wk'[w] # wk[w])
                => LET m == wk[w].recent[wk[w].idx]
                   IN  IF wk'[w].outcome = "SkippedDuplicate"
                       THEN KeyStored(m) /\ wk'[w].pc = "ack"
                       ELSE wk'[w].pc = "insert"
       /\ \A m \in MailIds :
             mail[m].email_type = "new_lead"
                 => Cardinality({i \in DOMAIN customers' : customers'[i].gmail_id = m}) <= 1]_vars

\* A message whose identifier a customers row held has passed both
\* duplicate checks again, and its second pair of rows is committed.
C27_Witness ==
    \E w \in Workers :
        /\ wk[w].pc = "ack"
        /\ wk[w].outcome = "Accepted"
        /\ Cardinality(RecordsOf(wk[w].recent[wk[w].idx])) = 2
        /\ wk[w].calls[1] = Call("email_already_processed", "False")
        /\ wk[w].calls[4] = Call("email_already_processed", "False")

\* Message m is a contact-form lead accepted with an empty phone.
NoPhoneLead(m) ==
    /\ mail[m].email_type \in ContactTypes
    /\ mail[m].parsed # <<>>
    /\ Strip((IF mail[m].parsed = <<>> THEN [phone |-> "?"] ELSE mail[m].parsed[1]).phone) = ""

\* C28: the natural-key check of a contact-form lead accepted with an
\* empty phone answers False whatever is stored, also a row with the same
\* name, location and empty phone: the callback goes on to the insert.
C28_NoPhoneLeadBypassesCheck ==
    [][\A w \in Workers :
          (/\ wk[w].pc = "leadcheck"
           /\ wk'[w] # wk[w]
           /\ NoPhoneLead(wk[w].recent[wk[w].idx]))
          => /\ wk'[w].pc = "insert"
             /\ LastCall(wk'[w]) = Call("lead_already_exists", "False")]_vars

\* Two messages with distinct identifiers, both contact-form leads without
\* phone and with the same name and location, are both persisted, each
\* with a users row of its own.
C28_Witness ==
    \E i, j \in DOMAIN customers :
        /\ customers[i].gmail_id # customers[j].gmail_id
        /\ NoPhoneLead(customers[i].gmail_id)
        /\ NoPhoneLead(customers[j].gmail_id)
        /\ customers[i].user_id # customers[j].user_id
        /\ users[customers[i].user_id].phone_number = ""
        /\ users[customers[j].user_id].phone_number = ""
        /\ users[customers[i].user_id].first_name = users[customers[j].user_id].first_name
        /\ users[customers[i].user_id].last_name = users[customers[j].user_id].last_name
        /\ users[customers[i].user_id].location = users[customers[j].user_id].location
        /\ \A w \in Workers : wk[w].pc = "idle"

\* The placeholder addresses save_lead can make up with a prefix.
Placeholders(prefix) == {prefix \o Token(k) \o "@bodyback-lead.local" : k \in Tokens}

\* C29: in every stored customers row has_real_email is true iff the
\* source is new_lead iff primary_contact_method is 'email'.  The users row
\* of a structured lead holds the address of the body, which passes
\* is_valid_email; the users row of a contact-form lead holds a 'contact_'
\* placeholder.
C29_RealEmailIffStructured ==
    \A i \in DOMAIN customers :
        LET row == customers[i]
            lead == mail[row.gmail_id].parsed[1]
            email == users[row.user_id].email
        IN  /\ row.has_real_email <=> row.source = "new_lead"
            /\ row.source = "new_lead" <=> row.primary_contact_method = "email"
            /\ row.source = mail[row.gmail_id].email_type
            /\ IF row.source = "new_lead"
               THEN email = lead.email /\ is_valid_email(email)
               ELSE email \in Placeholders("contact_")

\* A structured lead and a contact-form lead are both stored.
C29_Witness ==
    /\ \E i \in DOMAIN customers :
          customers[i].source = "new_lead" /\ customers[i].has_real_email
    /\ \E i \in DOMAIN customers :
          customers[i].source \in ContactTypes /\ ~customers[i].has_real_email

\* The non-empty ones of first_name and last_name joined with one space.
FullName(row) ==
    IF row.last_name = "" THEN row.first_name
    ELSE IF row.first_name = "" THEN row.last_name
    ELSE row.first_name \o " " \o row.last_name

\* C30: every stored users row has a non-empty first_name, and its
\* first_name and last_name joined with one space are clean_text of the
\* name extracted from the message of its customers row.
C30_StoredNameKeepsTokens ==
    /\ \A u \in DOMAIN users :
          /\ users[u].first_name # ""
          /\ \E i \in DOMAIN customers : customers[i].user_id = u
    /\ \A i \in DOMAIN customers :
          FullName(users[customers[i].user_id]) =
              clean_text(mail[customers[i].gmail_id].parsed[1].name)

\* Stored together: a name of one token, and a name whose tokens are more
\* than one space apart or more than two.
C30_Witness ==
    /\ \E u \in DOMAIN users : users[u].last_name = ""
    /\ \E i \in DOMAIN customers :
          LET name == mail[customers[i].gmail_id].parsed[1].name
          IN  \/ clean_text(name) # name
              \/ Len(Words(name)) > 2

====
